---------------------------- MODULE Spec2Model ----------------------------
(***************************************************************************)
(* Soca-Scores: the three scripts of the ETL pipeline as state machines.   *)
(*                                                                         *)
(*   ingestion  src/src/components/data_ingestion.py                       *)
(*   cleaning   src/experiments/scripts/data_cleaning.py                   *)
(*   insertion  src/src/components/database_scripts/                       *)
(*              db_creation_and_initial_insertion.py                       *)
(*                                                                         *)
(* Each script is run by its own __main__ block, so each has its own       *)
(* specification (SpecIngestion, SpecCleaning, SpecInsertion); the         *)
(* variables of the scripts that are not running stay at their idle value. *)
(***************************************************************************)
EXTENDS Integers, Sequences, FiniteSets, TLC

VARIABLES
    \* ---- ingestion script
    csv_exists,     \* does english_league_data_urls.csv exist
    urls_file,      \* the table stored in that file
    remote,         \* what pd.read_csv(seasons_url) gives for each url
    ipc,            \* position of the ingestion __main__
    urls,           \* local `urls` of __main__ (<<>> while unbound)
    index,          \* number of registry rows add_metadata has gone through
    dataframes,     \* the list add_metadata builds
    fetched,        \* the urls read so far, in order
    final_df,       \* <<>> or <<table>>: result of combine_dataframes
    saved,          \* <<>> or <<table>>: enhanced_dataset.csv written by this run
    called,         \* the methods __main__ has called so far, in order
    ierr            \* the exception that ended the ingestion run ("" if none)

ingVars == <<csv_exists, urls_file, remote, ipc, urls, index, dataframes,
             fetched, final_df, saved, called, ierr>>

VARIABLES
    \* ---- cleaning script
    feature_catalog,        \* rows of feature_catalog.csv, in file order
    ingested_csv,           \* the table in enhanced_dataset.csv
    cpc,                    \* position of the cleaning __main__
    enhanced,               \* <<>> or <<table>>: result of remove_betting_features
    threshold,              \* the threshold handle_missing_data was called with
    cols_to_drop,           \* the columns handle_missing_data logged as dropped
    enhanced_no_nulls,      \* <<>> or <<table>>: result of handle_missing_data
    standardized_no_nulls,  \* <<>> or <<table>>: result of declare_dtypes_early
    cerr                    \* the exception that ended the cleaning run

clnVars == <<feature_catalog, ingested_csv, cpc, enhanced, threshold,
             cols_to_drop, enhanced_no_nulls, standardized_no_nulls, cerr>>

VARIABLES
    \* ---- insertion script
    cleaned_csv,        \* the table in cleaned_ingested_data.csv
    table_exists,       \* does relation epl_data exist (committed)
    relation,           \* the committed rows of epl_data, oldest first
    relation0,          \* the rows of epl_data when the run started
    dpc,                \* position of load_and_insert
    data,               \* <<>> or <<frame>>: the frame prepare_data returns
    data_tuples,        \* the row tuples prepare_data returns
    conn,               \* "none", "open" or "closed"
    acquired,           \* how often psycopg2.connect has given a connection
    closed,             \* how often conn.close() has run
    tx,                 \* "idle" or "open": the connection's transaction
    tx_log,             \* begin / commit / rollback, in order
    pending,            \* rows inserted by the open transaction
    insert_columns,     \* the column list of the INSERT statement
    pages_done,         \* pages execute_batch has sent
    rowcount,           \* cur.rowcount of insert_data's cursor
    rows_inserted,      \* <<>> or <<n>>: what load_and_insert returns
    exit,               \* how the with block ended: "return" or "raise"
    derr                \* the exception that ended the insertion run

dbVars == <<cleaned_csv, table_exists, relation, relation0, dpc, data, data_tuples,
            conn, acquired, closed, tx, tx_log, pending, insert_columns,
            pages_done, rowcount, rows_inserted, exit, derr>>

vars == <<ingVars, clnVars, dbVars>>

-----------------------------------------------------------------------------
(* Bounds of the model                                                     *)

MaxSources == 2     \* registry rows
MaxSrcRows == 10    \* rows of one fetched season table
MaxGood    == 10    \* complete rows of the table the cleaner reads
MaxDirty   == 1     \* rows of that table with a defective cell
MaxExtra   == 2     \* catalog rows beyond the fixed ones
MaxPages   == 2     \* full pages of row tuples in one insert

-----------------------------------------------------------------------------
(* Cell values.  Every cell is a record of one shape, so that any two      *)
(* cells can be compared.                                                  *)

NA      == [t |-> "na",  s |-> "", i |-> 0]     \* NaN / None / <NA> / NaT
StrV(s) == [t |-> "str", s |-> s,  i |-> 0]
IntV(i) == [t |-> "int", s |-> "", i |-> i]
Tok(s, i) == [t |-> "str", s |-> s, i |-> i]    \* an opaque text cell
BoolV(b) == [t |-> "bool", s |-> "", i |-> IF b THEN 1 ELSE 0]
FracV(s) == [t |-> "float", s |-> s, i |-> 0]   \* a float with a fraction
DateV(y, m, d) == [t |-> "date", s |-> "", i |-> 10000 * y + 100 * m + d]

IsNull(v) == v.t = "na"

(* A DataFrame: its column labels in order, and its rows in order; a row   *)
(* is a function from the column labels to cells.                          *)
Table(cols, rows) == [cols |-> cols, rows |-> rows]

Range(s) == {s[i] : i \in DOMAIN s}

ColSet(df) == Range(df.cols)

NRows(df) == Len(df.rows)

RECURSIVE Dedup(_)
(* the labels of a sequence in order of first appearance *)
Dedup(s) ==
    IF s = <<>> THEN <<>>
    ELSE LET front == Dedup(SubSeq(s, 1, Len(s) - 1))
             last  == s[Len(s)]
         IN  IF last \in Range(front) THEN front ELSE Append(front, last)

(* df[c] = v for a scalar v: overwrite the column, or add it at the end *)
SetColumnConst(df, c, v) ==
    LET cols == IF c \in ColSet(df) THEN df.cols ELSE Append(df.cols, c)
    IN  Table(cols,
              [r \in DOMAIN df.rows |->
                  [x \in Range(cols) |-> IF x = c THEN v ELSE df.rows[r][x]]])

(* df[c] = vals, one value for every row: overwrite the column, or add it *)
(* at the end                                                              *)
WithColumn(df, c, vals) ==
    LET cols == IF c \in ColSet(df) THEN df.cols ELSE Append(df.cols, c)
    IN  Table(cols,
              [r \in DOMAIN df.rows |->
                  [x \in Range(cols) |->
                      IF x = c THEN vals[r] ELSE df.rows[r][x]]])

(* df.drop(columns = S), S a set of labels that are all present *)
DropColumns(df, S) ==
    Table(SelectSeq(df.cols, LAMBDA c : c \notin S),
          [r \in DOMAIN df.rows |->
              [x \in ColSet(df) \ S |-> df.rows[r][x]]])

(* df.loc[:, df.columns.isin(S)] *)
KeepColumns(df, S) == DropColumns(df, ColSet(df) \ S)

(* one frame reindexed to the columns `cols`: absent cells are NaN *)
Reindex(df, cols) ==
    [r \in DOMAIN df.rows |->
        [x \in Range(cols) |-> IF x \in ColSet(df) THEN df.rows[r][x] ELSE NA]]

RECURSIVE FlattenCols(_)
FlattenCols(dfs) ==
    IF dfs = <<>> THEN <<>>
    ELSE FlattenCols(SubSeq(dfs, 1, Len(dfs) - 1)) \o dfs[Len(dfs)].cols

RECURSIVE StackRows(_, _)
StackRows(dfs, cols) ==
    IF dfs = <<>> THEN <<>>
    ELSE StackRows(SubSeq(dfs, 1, Len(dfs) - 1), cols)
            \o Reindex(dfs[Len(dfs)], cols)

(* the concatenation with join='inner': only the columns all frames share *)
Concat_Inner(dfs) ==
    LET cols == SelectSeq(dfs[1].cols,
                          LAMBDA c : \A k \in DOMAIN dfs : c \in ColSet(dfs[k]))
    IN  Table(cols, StackRows(dfs, cols))

(* pd.concat(dfs, ignore_index=True) of a non-empty list: outer join on    *)
(* the columns (union, in order of first appearance), rows stacked in list *)
(* order                                                                   *)
Concat(dfs) ==
    LET cols == Dedup(FlattenCols(dfs))
    IN  Table(cols, StackRows(dfs, cols))

-----------------------------------------------------------------------------
(* float64 arithmetic, as far as the missing-percentage needs it.          *)
(* A finite positive double is sig * 2^exp with a 53-bit significand       *)
(*     sig = hi * 2^33 + mid * 2^13 + lo,                                  *)
(*     2^19 <= hi < 2^20,  0 <= mid < 2^20,  0 <= lo < 2^13                *)
(* kept in three limbs so that every intermediate stays below 2^31.        *)

HiUnit  == 2^20          \* one more than the largest hi and mid limb
LoUnit  == 2^13          \* one more than the largest lo limb

Float(kind, hi, mid, lo, exp) ==
    [kind |-> kind, hi |-> hi, mid |-> mid, lo |-> lo, exp |-> exp]

FloatNaN  == Float("nan", 0, 0, 0, 0)
FloatZero == Float("zero", 0, 0, 0, 0)

(* the significand (hi, mid, lo) plus `up` units in the last place         *)
(* (up is 0 or 1), renormalised when it reaches 2^53                       *)
RoundUp(hi, mid, lo, exp, up) ==
    LET lo1  == lo + up
        mid1 == mid + (lo1 \div LoUnit)
        hi1  == hi + (mid1 \div HiUnit)
    IN  IF hi1 = HiUnit
          THEN Float("num", HiUnit \div 2, 0, 0, exp + 1)
          ELSE Float("num", hi1, mid1 % HiUnit, lo1 % LoUnit, exp)

(* round to nearest, ties to even: guard is the first dropped bit, sticky  *)
(* tells whether anything non-zero lies below it                           *)
TiesToEven(lo, guard, sticky) ==
    IF guard = 1 /\ (sticky \/ lo % 2 = 1) THEN 1 ELSE 0

(* k / n in float64 for naturals k <= n < 2^11: long division of k by n,   *)
(* 53 significant bits, a guard bit, and the remainder as the sticky bit   *)
FloatDiv(k, n) ==
    IF n = 0 THEN FloatNaN                    \* 0/0 (k <= n)
    ELSE IF k = 0 THEN FloatZero
    ELSE LET s   == CHOOSE j \in 0..11 : n <= k * 2^j /\ k * 2^j < 2 * n
             r0  == k * 2^s                   \* 1 <= r0/n < 2
             hi  == (r0 * (HiUnit \div 2)) \div n
             r1  == (r0 * (HiUnit \div 2)) % n
             mid == (r1 * HiUnit) \div n
             r2  == (r1 * HiUnit) % n
             lo  == (r2 * LoUnit) \div n
             r3  == (r2 * LoUnit) % n
             g   == (2 * r3) \div n
             r4  == (2 * r3) % n
         IN  RoundUp(hi, mid, lo, 0 - 52 - s, TiesToEven(lo, g, r4 # 0))

(* x * c in float64, c a natural below 2^7 *)
FloatTimes(x, c) ==
    IF x.kind = "nan" THEN FloatNaN
    ELSE IF x.kind = "zero" \/ c = 0 THEN FloatZero
    ELSE LET pl  == x.lo * c
             pm  == x.mid * c + (pl \div LoUnit)
             ph  == x.hi * c + (pm \div HiUnit)
             l   == pl % LoUnit
             m   == pm % HiUnit
             d   == CHOOSE j \in 0..7 :           \* bits beyond the 53rd
                        (HiUnit \div 2) * 2^j <= ph /\ ph < HiUnit * 2^j
             hi  == ph \div 2^d
             mid == (m \div 2^d) + (ph % 2^d) * (HiUnit \div 2^d)
             lo  == (l \div 2^d) + (m % 2^d) * (LoUnit \div 2^d)
             g   == IF d = 0 THEN 0 ELSE (l \div 2^(d - 1)) % 2
             st  == d > 1 /\ l % 2^(d - 1) # 0
         IN  RoundUp(hi, mid, lo, x.exp + d, TiesToEven(lo, g, st))

(* x > t in float64, t a natural below 2^11 (NaN compares false) *)
FloatGreater(x, t) ==
    /\ x.kind = "num"
    /\ \/ t = 0
       \/ LET u == 0 - x.exp - 33 IN          \* t = (t * 2^u) * 2^33 * 2^exp
          IF u < 0 THEN TRUE                  \* x >= 2^19 * 2^33 * 2^exp > 2^11
          ELSE IF u >= 20 THEN FALSE          \* x < 2^(20-u) <= 1 <= t
          ELSE \/ x.hi > t * 2^u
               \/ x.hi = t * 2^u /\ (x.mid > 0 \/ x.lo > 0)

-----------------------------------------------------------------------------
(* INGESTION  (data_ingestion.py)                                          *)

RegistryColumns == <<"Season_ID", "Seasons_url", "Competition_name">>

(* The source catalog with n rows; `missing` names a column the file lacks *)
(* ("" for a well-formed file).  Row i names url i.                        *)
Registry(n, missing) ==
    LET cols == SelectSeq(RegistryColumns, LAMBDA c : c # missing)
    IN  Table(cols,
              [i \in 1..n |->
                  [c \in Range(cols) |->
                      CASE c = "Season_ID"        -> Tok("season", i)
                        [] c = "Seasons_url"      -> Tok("url", i)
                        [] OTHER                  -> Tok("competition", i)]])

(* Column layouts seen in season files: with and without the legacy       *)
(* division column, and with differing statistics columns                 *)
SourceLayouts ==
    { <<"Div", "Date", "HomeTeam">>,
      <<"Date", "HomeTeam", "HS">>,
      <<"Div", "HomeTeam", "Referee">> }

SourceRowCounts == {0, 1, MaxSrcRows}

(* The season table behind url u: every cell is its own token *)
SourceTable(u, cols, n) ==
    Table(cols, [r \in 1..n |-> [c \in Range(cols) |-> Tok(c, 100 * u + r)]])

FetchFailure == [ok |-> FALSE, df |-> Table(<<>>, <<>>)]

FetchOutcomes(u) ==
    {FetchFailure} \cup
    { [ok |-> TRUE, df |-> SourceTable(u, cols, n)] :
          cols \in SourceLayouts, n \in SourceRowCounts }

(* logging.info(final_df[...].sample(10)...): sampling without replacement *)
(* raises ValueError when the frame has fewer rows than asked for          *)
SampleSize == 10

SampleRaises(df) == NRows(df) < SampleSize

IdleIngestion ==
    /\ csv_exists = FALSE
    /\ urls_file = Table(<<>>, <<>>)
    /\ remote = <<>>
    /\ ipc = "idle"
    /\ urls = <<>>
    /\ index = 0
    /\ dataframes = <<>>
    /\ fetched = <<>>
    /\ final_df = <<>>
    /\ saved = <<>>
    /\ called = <<>>
    /\ ierr = ""

IdleInsertion ==
    /\ cleaned_csv = Table(<<>>, <<>>)
    /\ table_exists = FALSE
    /\ relation = <<>>
    /\ relation0 = <<>>
    /\ dpc = "idle"
    /\ data = <<>>
    /\ data_tuples = <<>>
    /\ conn = "none"
    /\ acquired = 0
    /\ closed = 0
    /\ tx = "idle"
    /\ tx_log = <<>>
    /\ pending = <<>>
    /\ insert_columns = <<>>
    /\ pages_done = 0
    /\ rowcount = 0 - 1
    /\ rows_inserted = <<>>
    /\ exit = ""
    /\ derr = ""

IdleCleaning ==
    /\ feature_catalog = <<>>
    /\ ingested_csv = Table(<<>>, <<>>)
    /\ cpc = "idle"
    /\ enhanced = <<>>
    /\ threshold = 0
    /\ cols_to_drop = {}
    /\ enhanced_no_nulls = <<>>
    /\ standardized_no_nulls = <<>>
    /\ cerr = ""

InitIngestion ==
    /\ \E n \in 0..MaxSources :
         /\ \/ /\ csv_exists = TRUE
               /\ \E missing \in {""} \cup Range(RegistryColumns) :
                     urls_file = Registry(n, missing)
            \/ /\ csv_exists = FALSE
               /\ n = 0
               /\ urls_file = Registry(0, "")
         /\ remote \in { f \in [1..MaxSources -> UNION {FetchOutcomes(u) : u \in 1..MaxSources}] :
                            \A u \in 1..MaxSources :
                               IF u <= n THEN f[u] \in FetchOutcomes(u)
                                         ELSE f[u] = FetchFailure }
    /\ ipc = "load_csv"
    /\ urls = <<>>
    /\ index = 0
    /\ dataframes = <<>>
    /\ fetched = <<>>
    /\ final_df = <<>>
    /\ saved = <<>>
    /\ called = <<>>
    /\ ierr = ""
    /\ IdleCleaning
    /\ IdleInsertion

(* load_csv: reads the catalog if the file exists; if it does not, only   *)
(* logs, and `return urls` then reads a local that was never bound         *)
load_csv ==
    /\ ipc = "load_csv"
    /\ called' = Append(called, "load_csv")
    /\ IF csv_exists
         THEN /\ urls' = <<urls_file>>
              /\ ipc' = "add_metadata"
              /\ ierr' = ""
         ELSE /\ urls' = urls
              /\ ipc' = "raised"
              /\ ierr' = "UnboundLocalError"
    /\ UNCHANGED <<csv_exists, urls_file, remote, index, dataframes, fetched,
                   final_df, saved>>
    /\ UNCHANGED <<clnVars, dbVars>>

(* the loop with a handler inside it, which logs the failure and goes on   *)
(* to the next source                                                      *)
add_metadata_row_SkipFailed ==
    /\ ipc = "add_metadata"
    /\ index < NRows(urls[1])
    /\ called' = IF index = 0 THEN Append(called, "add_metadata") ELSE called
    /\ LET row == urls[1].rows[index + 1] IN
       IF ~ (Range(RegistryColumns) \subseteq DOMAIN row)
         THEN /\ ipc' = "raised"
              /\ ierr' = "KeyError"
              /\ UNCHANGED <<index, dataframes, fetched>>
         ELSE LET u == row["Seasons_url"].i IN
              /\ fetched' = Append(fetched, u)
              /\ index' = index + 1
              /\ dataframes' =
                    IF remote[u].ok
                      THEN Append(dataframes,
                                  SetColumnConst(
                                      SetColumnConst(remote[u].df, "season_id",
                                                     row["Season_ID"]),
                                      "competition_name", row["Competition_name"]))
                      ELSE dataframes
              /\ UNCHANGED <<ipc, ierr>>
    /\ UNCHANGED <<csv_exists, urls_file, remote, urls, final_df, saved>>
    /\ UNCHANGED <<clnVars, dbVars>>

(* one iteration of the loop of add_metadata *)
add_metadata_row ==
    /\ ipc = "add_metadata"
    /\ index < NRows(urls[1])
    /\ called' = IF index = 0 THEN Append(called, "add_metadata") ELSE called
    /\ LET row == urls[1].rows[index + 1] IN
       IF ~ (Range(RegistryColumns) \subseteq DOMAIN row)
         THEN \* row["..."] outside the try block
              /\ ipc' = "raised"
              /\ ierr' = "KeyError"
              /\ UNCHANGED <<index, dataframes, fetched>>
         ELSE LET u == row["Seasons_url"].i IN
              /\ fetched' = Append(fetched, u)
              /\ IF remote[u].ok
                   THEN /\ dataframes' =
                             Append(dataframes,
                                    SetColumnConst(
                                        SetColumnConst(remote[u].df, "season_id",
                                                       row["Season_ID"]),
                                        "competition_name", row["Competition_name"]))
                        /\ index' = index + 1
                        /\ UNCHANGED <<ipc, ierr>>
                   ELSE /\ ipc' = "raised"
                        /\ ierr' = "CustomException"
                        /\ UNCHANGED <<index, dataframes>>
    /\ UNCHANGED <<csv_exists, urls_file, remote, urls, final_df, saved>>
    /\ UNCHANGED <<clnVars, dbVars>>

(* the loop is over: return dataframes *)
add_metadata_return ==
    /\ ipc = "add_metadata"
    /\ index = NRows(urls[1])
    /\ called' = IF index = 0 THEN Append(called, "add_metadata") ELSE called
    /\ ipc' = "combine"
    /\ UNCHANGED <<csv_exists, urls_file, remote, urls, index, dataframes,
                   fetched, final_df, saved, ierr>>
    /\ UNCHANGED <<clnVars, dbVars>>

(* the body of the try block of combine_dataframes: <<>> when it raises *)
Combined(dfs) ==
    IF dfs = <<>> THEN <<>>                          \* concat: nothing to concatenate
    ELSE LET all == Concat(dfs) IN
         IF "Div" \notin ColSet(all) THEN <<>>       \* drop('Div'): KeyError
         ELSE LET out == DropColumns(all, {"Div"}) IN
              IF SampleRaises(out) THEN <<>>         \* sample(10): ValueError
              ELSE <<out>>

combine_dataframes ==
    /\ ipc = "combine"
    /\ called' = Append(called, "combine_dataframes")
    /\ LET res == Combined(dataframes) IN
       IF res = <<>>
         THEN /\ ipc' = "raised"
              /\ ierr' = "CustomException"
              /\ UNCHANGED final_df
         ELSE /\ final_df' = res
              /\ ipc' = "save"
              /\ UNCHANGED ierr
    /\ UNCHANGED <<csv_exists, urls_file, remote, urls, index, dataframes,
                   fetched, saved>>
    /\ UNCHANGED <<clnVars, dbVars>>

(* save_datasets: to_csv either writes the file or fails *)
save_datasets ==
    /\ ipc = "save"
    /\ called' = Append(called, "save_datasets")
    /\ \/ /\ saved' = final_df
          /\ ipc' = "done"
          /\ UNCHANGED ierr
       \/ /\ ipc' = "raised"
          /\ ierr' = "CustomException"
          /\ UNCHANGED saved
    /\ UNCHANGED <<csv_exists, urls_file, remote, urls, index, dataframes,
                   fetched, final_df>>
    /\ UNCHANGED <<clnVars, dbVars>>

NextIngestion ==
    \/ load_csv
    \/ add_metadata_row
    \/ add_metadata_return
    \/ combine_dataframes
    \/ save_datasets

SpecIngestion == InitIngestion /\ [][NextIngestion]_vars

-----------------------------------------------------------------------------
(* CLEANING  (data_cleaning.py)                                            *)

critical_columns == <<"HomeTeam", "AwayTeam", "Date", "FTHG", "FTAG">>

string_columns == <<"HomeTeam", "AwayTeam", "FTR", "HTR", "Referee", "Month", "Day">>

numeric_columns == <<"FTHG", "FTAG", "HTHG", "HTAG", "HS", "HST", "AST", "HF", "AF",
                     "HC", "AC", "HY", "AY", "HR", "AR", "Year">>

DefaultThreshold == 10

(* ---- text conversions, on the texts that occur in the model ---- *)

(* str(v), as astype(str) applies it to one cell *)
AsStr(v) ==
    CASE v.t = "na"   -> "nan"
      [] v.t = "bool" -> IF v.i = 1 THEN "True" ELSE "False"
      [] v.t = "int"  -> ToString(v.i)
      [] OTHER        -> v.s

(* str.lower() *)
Lower(s) ==
    CASE s \in {"False", "FALSE", "false"} -> "false"
      [] s \in {"True", "TRUE", "true"}    -> "true"
      [] s = "No"                          -> "no"
      [] OTHER                             -> s

(* str.strip() *)
Strip(s) ==
    CASE s = " Arsenal " -> "Arsenal"
      [] s = "H "        -> "H"
      [] OTHER           -> s

(* pd.to_numeric(errors="coerce") on one cell: text that is no number      *)
(* becomes NaN                                                             *)
ToNumeric(v) ==
    CASE v.t = "int"                  -> v
      [] v.t = "str" /\ v.s = "2"     -> IntV(2)
      [] v.t = "str" /\ v.s = "1.5"   -> FracV("1.5")
      [] OTHER                        -> NA

(* astype("Int64") raises on a float that is no whole number *)
CastRaises(v) == ToNumeric(v).t = "float"

(* pd.to_datetime(format="mixed") on one cell; raises on any other text *)
DateTexts == {"14/08/2021", "2021-08-15"}

ToDatetime(v) ==
    CASE v.t = "na"                        -> NA
      [] v.t = "str" /\ v.s = "14/08/2021" -> DateV(2021, 8, 14)
      [] v.t = "str" /\ v.s = "2021-08-15" -> DateV(2021, 8, 15)
      [] OTHER                             -> v

DatetimeRaises(v) == ~ IsNull(v) /\ ~ (v.t = "str" /\ v.s \in DateTexts)

MonthNames == <<"January", "February", "March", "April", "May", "June", "July",
                "August", "September", "October", "November", "December">>

DayNames == <<"Sunday", "Monday", "Tuesday", "Wednesday", "Thursday", "Friday",
              "Saturday">>

YearOf(d)  == d.i \div 10000
MonthOf(d) == (d.i \div 100) % 100
DayOf(d)   == d.i % 100

(* the day of the week of a Gregorian date, 0 for Sunday *)
Weekday(d) ==
    LET offsets == <<0, 3, 2, 5, 0, 3, 5, 1, 4, 6, 2, 4>>
        y == IF MonthOf(d) < 3 THEN YearOf(d) - 1 ELSE YearOf(d)
    IN  (y + (y \div 4) - (y \div 100) + (y \div 400) + offsets[MonthOf(d)] + DayOf(d)) % 7

(* .dt.strftime('%B'), .dt.year, .dt.strftime('%A'); NaT gives NaN *)
MonthCell(d) == IF IsNull(d) THEN NA ELSE StrV(MonthNames[MonthOf(d)])
YearCell(d)  == IF IsNull(d) THEN NA ELSE IntV(YearOf(d))
DayCell(d)   == IF IsNull(d) THEN NA ELSE StrV(DayNames[Weekday(d) + 1])

(* ---- inputs ---- *)

IngestedColumns == <<"Date", "HomeTeam", "AwayTeam", "FTHG", "FTAG", "FTR",
                     "B365H", "season_id">>

GoodRow ==
    [c \in Range(IngestedColumns) |->
        CASE c = "Date"      -> StrV("14/08/2021")
          [] c = "HomeTeam"  -> StrV(" Arsenal ")
          [] c = "AwayTeam"  -> StrV("Chelsea")
          [] c = "FTHG"      -> IntV(2)
          [] c = "FTAG"      -> StrV("2")
          [] c = "FTR"       -> StrV("H ")
          [] c = "B365H"     -> StrV("1.5")
          [] OTHER           -> StrV("2021")]

(* a defect: one cell of a row that differs from the complete row *)
Defects ==
    { <<"FTHG", NA>>, <<"FTHG", StrV("x")>>, <<"FTAG", StrV("1.5")>>,
      <<"HomeTeam", NA>>, <<"Date", NA>>, <<"Date", StrV("garbage")>>,
      <<"Date", StrV("2021-08-15")>>, <<"FTR", NA>>, <<"B365H", NA>> }

DirtyRow(defect) == [GoodRow EXCEPT ![defect[1]] = defect[2]]

SeqsUpTo(S, n) == UNION { [1..m -> S] : m \in 0..n }

IngestedTables ==
    { Table(IngestedColumns,
            [i \in 1..Len(defects) |-> DirtyRow(defects[i])]
                \o [i \in 1..good |-> GoodRow]) :
        good \in 0..MaxGood, defects \in SeqsUpTo(Defects, MaxDirty) }

PlainTable == Table(IngestedColumns, [i \in 1..MaxGood |-> GoodRow])

CatalogEntry(name, flag) == [Feature_name |-> name, Betting_odd |-> flag]

(* read_csv gives the Betting_odd column as booleans when every cell reads *)
(* as one (with NaN for an empty cell), and as text otherwise              *)
FlagDomains ==
    { {BoolV(FALSE), BoolV(TRUE), NA},
      {StrV("False"), StrV("false"), StrV("FALSE"), StrV("True"), StrV("TRUE"),
       StrV("No"), NA} }

FalseFlag(flags) == IF BoolV(FALSE) \in flags THEN BoolV(FALSE) ELSE StrV("False")
TrueFlag(flags)  == IF BoolV(TRUE) \in flags THEN BoolV(TRUE) ELSE StrV("True")

(* the fixed catalog rows: every critical column but FTHG, and FTR *)
FixedCatalog(flags) ==
    [i \in 1..5 |->
        CatalogEntry(<<"HomeTeam", "AwayTeam", "Date", "FTAG", "FTR">>[i],
                     FalseFlag(flags))]

CatalogsOver(flags) ==
    { FixedCatalog(flags) \o extra :
        extra \in SeqsUpTo({ CatalogEntry(n, f) : n \in {"FTHG", "B365H"}, f \in flags },
                           MaxExtra) }

Catalogs == UNION { CatalogsOver(flags) : flags \in FlagDomains }

StandardCatalog ==
    LET flags == CHOOSE d \in FlagDomains : StrV("False") \in d
    IN  FixedCatalog(flags)
          \o <<CatalogEntry("FTHG", StrV("FALSE")), CatalogEntry("B365H", StrV("True"))>>

InitCleaning ==
    /\ \/ /\ feature_catalog \in Catalogs
          /\ ingested_csv = PlainTable
       \/ /\ feature_catalog = StandardCatalog
          /\ ingested_csv \in IngestedTables
    /\ cpc = "remove_betting_features"
    /\ enhanced = <<>>
    /\ threshold = 0
    /\ cols_to_drop = {}
    /\ enhanced_no_nulls = <<>>
    /\ standardized_no_nulls = <<>>
    /\ cerr = ""
    /\ IdleIngestion
    /\ IdleInsertion

(* ---- Step 1 ---- *)

(* the comparison without str.lower() *)
is_not_betting_feature_CaseSensitive(entry) == AsStr(entry.Betting_odd) \in {"false"}

(* catalog['Betting_odd'].astype(str).str.lower().isin(['false']), per row *)
is_not_betting_feature(entry) == Lower(AsStr(entry.Betting_odd)) \in {"false"}

feature_names_to_keep(catalog) ==
    { catalog[i].Feature_name : i \in { j \in DOMAIN catalog : is_not_betting_feature(catalog[j]) } }

remove_betting_features ==
    /\ cpc = "remove_betting_features"
    /\ enhanced' = <<KeepColumns(ingested_csv, feature_names_to_keep(feature_catalog))>>
    /\ cpc' = "handle_missing_data"
    /\ UNCHANGED <<feature_catalog, ingested_csv, threshold, cols_to_drop,
                   enhanced_no_nulls, standardized_no_nulls, cerr>>
    /\ UNCHANGED <<ingVars, dbVars>>

(* ---- Step 2 ---- *)

(* enhanced_data.isnull().sum() for one column *)
NullCount(df, c) == Cardinality({ r \in DOMAIN df.rows : IsNull(df.rows[r][c]) })

(* (isnull().sum() / len(df)) * 100, in float64 *)
missing_percent(df, c) == FloatTimes(FloatDiv(NullCount(df, c), NRows(df)), 100)

(* the comparison with >= in place of > *)
ColsToDrop_AtThreshold(df, t) ==
    { c \in ColSet(df) :
        \/ FloatGreater(missing_percent(df, c), t)
        \/ missing_percent(df, c) = FloatTimes(FloatDiv(t, 100), 100) }

(* missing_percent[missing_percent > threshold].index *)
ColsToDrop(df, t) == { c \in ColSet(df) : FloatGreater(missing_percent(df, c), t) }

(* dropna(subset = S): the rows with no missing value in the columns S *)
DropNA(df, S) ==
    Table(df.cols, SelectSeq(df.rows, LAMBDA row : \A c \in S : ~ IsNull(row[c])))

(* dropna(subset=...) raises KeyError when a label of the subset is no column *)
DropNARaises(df, S) == ~ (S \subseteq ColSet(df))

(* __main__ calls handle_missing_data(enhanced): threshold takes its default *)
handle_missing_data ==
    /\ cpc = "handle_missing_data"
    /\ threshold' = DefaultThreshold
    /\ LET drop == ColsToDrop(enhanced[1], threshold')
           kept == DropColumns(enhanced[1], drop)
       IN  /\ cols_to_drop' = drop
           /\ IF DropNARaises(kept, Range(critical_columns))
                THEN /\ cpc' = "raised"
                     /\ cerr' = "CustomException"
                     /\ UNCHANGED enhanced_no_nulls
                ELSE /\ enhanced_no_nulls' = <<DropNA(kept, Range(critical_columns))>>
                     /\ cpc' = "declare_dtypes_early"
                     /\ UNCHANGED cerr
    /\ UNCHANGED <<feature_catalog, ingested_csv, enhanced, standardized_no_nulls>>
    /\ UNCHANGED <<ingVars, dbVars>>

(* ---- Step 3 ---- *)

(* the Date column parsed, and Month, Year and Day derived from it *)
WithDates(df) ==
    LET parsed == WithColumn(df, "Date",
                             [r \in DOMAIN df.rows |-> ToDatetime(df.rows[r]["Date"])])
        dates  == [r \in DOMAIN df.rows |-> parsed.rows[r]["Date"]]
        month  == WithColumn(parsed, "Month",
                             [r \in DOMAIN df.rows |-> MonthCell(dates[r])])
        year   == WithColumn(month, "Year",
                             [r \in DOMAIN df.rows |-> YearCell(dates[r])])
    IN  WithColumn(year, "Day", [r \in DOMAIN df.rows |-> DayCell(dates[r])])

(* the loop over string_columns: astype(str).str.strip() on those present *)
WithStrings(df) ==
    Table(df.cols,
          [r \in DOMAIN df.rows |->
              [x \in ColSet(df) |->
                  IF x \in Range(string_columns)
                    THEN StrV(Strip(AsStr(df.rows[r][x])))
                    ELSE df.rows[r][x]]])

(* is column c one that the numeric loop fails on *)
NumericRaises(df, c) ==
    c \in ColSet(df) /\ \E r \in DOMAIN df.rows : CastRaises(df.rows[r][c])

(* how many of numeric_columns the loop gets through before it raises *)
NumericDone(df) ==
    LET bad == { j \in DOMAIN numeric_columns : NumericRaises(df, numeric_columns[j]) }
    IN  IF bad = {} THEN Len(numeric_columns)
        ELSE (CHOOSE j \in bad : \A h \in bad : j <= h) - 1

(* the loop over numeric_columns, as far as it gets: to_numeric with       *)
(* errors="coerce", then astype("Int64")                                   *)
WithNumerics(df) ==
    LET done == Range(SubSeq(numeric_columns, 1, NumericDone(df)))
    IN  Table(df.cols,
              [r \in DOMAIN df.rows |->
                  [x \in ColSet(df) |->
                      IF x \in done THEN ToNumeric(df.rows[r][x])
                                     ELSE df.rows[r][x]]])

(* The frame is changed in place, so the frame __main__ holds as           *)
(* enhanced_no_nulls shows every assignment made before an exception.      *)
declare_dtypes_early ==
    /\ cpc = "declare_dtypes_early"
    /\ LET df == enhanced_no_nulls[1] IN
       IF \E r \in DOMAIN df.rows : DatetimeRaises(df.rows[r]["Date"])
         THEN \* to_datetime raises
              /\ cpc' = "raised" /\ cerr' = "CustomException"
              /\ UNCHANGED <<enhanced_no_nulls, standardized_no_nulls>>
       ELSE IF SampleRaises(WithDates(df))
         THEN \* logging.info(f"...{sample(10)}") raises
              /\ cpc' = "raised" /\ cerr' = "CustomException"
              /\ enhanced_no_nulls' = <<WithDates(df)>>
              /\ UNCHANGED standardized_no_nulls
       ELSE LET typed == WithNumerics(WithStrings(WithDates(df))) IN
            IF NumericDone(WithStrings(WithDates(df))) < Len(numeric_columns)
              THEN \* astype("Int64") raises
                   /\ cpc' = "raised" /\ cerr' = "CustomException"
                   /\ enhanced_no_nulls' = <<typed>>
                   /\ UNCHANGED standardized_no_nulls
              ELSE /\ cpc' = "done"
                   /\ enhanced_no_nulls' = <<typed>>
                   /\ standardized_no_nulls' = <<typed>>
                   /\ UNCHANGED cerr
    /\ UNCHANGED <<feature_catalog, ingested_csv, enhanced, threshold, cols_to_drop>>
    /\ UNCHANGED <<ingVars, dbVars>>

NextCleaning ==
    \/ remove_betting_features
    \/ handle_missing_data
    \/ declare_dtypes_early

SpecCleaning == InitCleaning /\ [][NextCleaning]_vars

-----------------------------------------------------------------------------
(* INSERTION  (db_creation_and_initial_insertion.py)                       *)
(*                                                                         *)
(* Here a frame keeps its rows by position (a row is the sequence of its   *)
(* cells in column order), as data.values and the row tuples do.           *)

COLUMN_ORDER ==
    <<"Date", "HomeTeam", "AwayTeam", "FTHG", "FTAG", "FTR",
      "HTHG", "HTAG", "HTR", "Referee", "HomeShots", "AwayShots",
      "HST", "AST", "HF", "AF", "HC", "AC", "HY", "AY", "HR", "AR",
      "Month", "Year", "Day">>

(* COLUMN_RENAMES, applied to one label *)
COLUMN_RENAMES(c) ==
    CASE c = "HS" -> "HomeShots"
      [] c = "AS" -> "AwayShots"
      [] OTHER    -> c

(* the columns of CREATE_TABLE_SQL that the program fills, in the order    *)
(* of their declaration                                                    *)
TABLE_COLUMNS ==
    <<"date", "hometeam", "awayteam", "fthg", "ftag", "ftr",
      "hthg", "htag", "htr", "referee", "homeshots", "awayshots",
      "hst", "ast", "hf", "af", "hc", "ac", "hy", "ay", "hr", "ar",
      "month", "year", "day">>

(* col.lower() on the canonical labels *)
LowerLabel(c) ==
    LET lowered ==
          <<"date", "hometeam", "awayteam", "fthg", "ftag", "ftr",
            "hthg", "htag", "htr", "referee", "homeshots", "awayshots",
            "hst", "ast", "hf", "af", "hc", "ac", "hy", "ay", "hr", "ar",
            "month", "year", "day">>
    IN  IF c \in Range(COLUMN_ORDER)
          THEN lowered[CHOOSE j \in DOMAIN COLUMN_ORDER : COLUMN_ORDER[j] = c]
          ELSE c

page_size == 1000

(* ---- inputs ---- *)

(* Column layouts of the cleaned file.  The file carries the source's      *)
(* abbreviations HS and AS or the canonical names, never both for one      *)
(* statistic.                                                              *)
CleanedLayouts ==
    { <<"HomeTeam", "Date", "HS", "FTHG", "season_id">>,
      <<"AS", "HS", "AwayTeam">>,
      <<"Day", "HomeShots", "Date", "Year">>,
      <<"season_id", "competition_name">> }

WideLayout == <<"AS", "HomeTeam">>

CleanedFile(cols, n) ==
    Table(cols, [r \in 1..n |-> [j \in DOMAIN cols |-> Tok(cols[j], r)]])

SmallCounts == {0, 1, 2}

LargeCounts == { p * page_size + d : p \in 1..MaxPages, d \in {0, 1} }

CleanedFiles ==
    { CleanedFile(cols, n) : cols \in CleanedLayouts, n \in SmallCounts }
      \cup { CleanedFile(WideLayout, n) : n \in LargeCounts }

(* a row some earlier run has committed *)
OldRow == <<Tok("old", 0)>>

InitInsertion ==
    /\ cleaned_csv \in CleanedFiles
    /\ \/ table_exists = FALSE /\ relation = <<>>
       \/ table_exists = TRUE /\ relation = <<OldRow>>
    /\ relation0 = relation
    /\ dpc = "prepare_data"
    /\ data = <<>>
    /\ data_tuples = <<>>
    /\ conn = "none"
    /\ acquired = 0
    /\ closed = 0
    /\ tx = "idle"
    /\ tx_log = <<>>
    /\ pending = <<>>
    /\ insert_columns = <<>>
    /\ pages_done = 0
    /\ rowcount = 0 - 1
    /\ rows_inserted = <<>>
    /\ exit = ""
    /\ derr = ""
    /\ IdleIngestion
    /\ IdleCleaning

(* ---- prepare_data ---- *)

(* the projection taken on the labels as they came, without the renaming  *)
Renamed_Skipped(df) == df

(* data.rename(columns=COLUMN_RENAMES) *)
Renamed(df) == Table([j \in DOMAIN df.cols |-> COLUMN_RENAMES(df.cols[j])], df.rows)

(* [col for col in COLUMN_ORDER if col in data.columns] *)
available_columns(df) == SelectSeq(COLUMN_ORDER, LAMBDA c : c \in ColSet(df))

(* the position of label c in a frame whose labels are distinct *)
Position(df, c) == CHOOSE j \in DOMAIN df.cols : df.cols[j] = c

(* data[labels] *)
Projected(df, labels) ==
    Table(labels,
          [r \in DOMAIN df.rows |->
              [j \in DOMAIN labels |-> df.rows[r][Position(df, labels[j])]]])

(* [tuple(row) for row in data.values] *)
Tuples(df) == df.rows

prepare_data ==
    /\ dpc = "prepare_data"
    /\ LET renamed == Renamed(cleaned_csv)
           labels  == available_columns(renamed)
       IN  IF Len(labels) = 0
             THEN \* ValueError("No valid columns found in DataFrame")
                  /\ dpc' = "raised"
                  /\ derr' = "CustomException"
                  /\ UNCHANGED <<data, data_tuples>>
             ELSE /\ data' = <<Projected(renamed, labels)>>
                  /\ data_tuples' = Tuples(Projected(renamed, labels))
                  /\ dpc' = "get_connection"
                  /\ UNCHANGED derr
    /\ UNCHANGED <<cleaned_csv, table_exists, relation, relation0, conn, acquired,
                   closed, tx, tx_log, pending, insert_columns, pages_done,
                   rowcount, rows_inserted, exit>>
    /\ UNCHANGED <<ingVars, clnVars>>

(* ---- get_connection ---- *)

(* psycopg2.connect: the connection opens, or connect raises and conn      *)
(* stays None, so that the finally clause closes nothing                   *)
get_connection ==
    /\ dpc = "get_connection"
    /\ \/ /\ conn' = "open"
          /\ acquired' = acquired + 1
          /\ dpc' = "ensure_table_exists"
          /\ UNCHANGED derr
       \/ /\ dpc' = "raised"
          /\ derr' = "CustomException"
          /\ UNCHANGED <<conn, acquired>>
    /\ UNCHANGED <<cleaned_csv, table_exists, relation, relation0, data, data_tuples,
                   closed, tx, tx_log, pending, insert_columns, pages_done,
                   rowcount, rows_inserted, exit>>
    /\ UNCHANGED <<ingVars, clnVars>>

(* the close written after the with block's body instead of in a finally   *)
(* clause: an exception leaves without closing                             *)
close_connection_NoFinally ==
    /\ dpc = "close"
    /\ conn = "open"
    /\ IF exit = "raise"
         THEN /\ dpc' = "raised"
              /\ UNCHANGED <<conn, closed, pending, tx>>
         ELSE /\ conn' = "closed"
              /\ closed' = closed + 1
              /\ pending' = <<>>
              /\ tx' = "idle"
              /\ dpc' = "done"
    /\ UNCHANGED <<cleaned_csv, table_exists, relation, relation0, data, data_tuples,
                   acquired, tx_log, insert_columns, pages_done, rowcount,
                   rows_inserted, exit, derr>>
    /\ UNCHANGED <<ingVars, clnVars>>

(* the finally clause of get_connection, reached when the with block ends  *)
(* or raises: closing discards whatever the transaction had not committed  *)
close_connection ==
    /\ dpc = "close"
    /\ conn = "open"
    /\ conn' = "closed"
    /\ closed' = closed + 1
    /\ pending' = <<>>
    /\ tx' = "idle"
    /\ dpc' = IF exit = "raise" THEN "raised" ELSE "done"
    /\ UNCHANGED <<cleaned_csv, table_exists, relation, relation0, data, data_tuples,
                   acquired, tx_log, insert_columns, pages_done, rowcount,
                   rows_inserted, exit, derr>>
    /\ UNCHANGED <<ingVars, clnVars>>

(* the schema statement executed without the commit: its transaction     *)
(* stays open when the method returns                                      *)
ensure_table_exists_NoCommit ==
    /\ dpc = "ensure_table_exists"
    /\ \/ /\ table_exists' = TRUE
          /\ tx' = "open"
          /\ tx_log' = Append(tx_log, "begin")
          /\ dpc' = "insert_data"
          /\ UNCHANGED <<exit, derr>>
       \/ /\ tx_log' = tx_log \o <<"begin", "rollback">>
          /\ dpc' = "close"
          /\ exit' = "raise"
          /\ derr' = "CustomException"
          /\ UNCHANGED <<table_exists, tx>>
    /\ UNCHANGED <<cleaned_csv, relation, relation0, data, data_tuples, conn, acquired,
                   closed, pending, insert_columns, pages_done, rowcount,
                   rows_inserted>>
    /\ UNCHANGED <<ingVars, clnVars>>

(* ---- ensure_table_exists ---- *)

(* cur.execute(CREATE_TABLE_SQL) and conn.commit(); when either raises,    *)
(* the handler rolls back and raises                                       *)
ensure_table_exists ==
    /\ dpc = "ensure_table_exists"
    /\ \/ /\ table_exists' = TRUE
          /\ tx_log' = tx_log \o <<"begin", "commit">>
          /\ dpc' = "insert_data"
          /\ UNCHANGED <<exit, derr>>
       \/ /\ tx_log' = tx_log \o <<"begin", "rollback">>
          /\ dpc' = "close"
          /\ exit' = "raise"
          /\ derr' = "CustomException"
          /\ UNCHANGED table_exists
    /\ UNCHANGED <<cleaned_csv, relation, relation0, data, data_tuples, conn, acquired,
                   closed, tx, pending, insert_columns, pages_done, rowcount,
                   rows_inserted>>
    /\ UNCHANGED <<ingVars, clnVars>>

(* ---- insert_data ---- *)

(* columns = [col.lower() for col in data.columns] *)
InsertColumns(df) == [j \in DOMAIN df.cols |-> LowerLabel(df.cols[j])]

(* the statement is built from the prepared frame's columns *)
insert_data_begin ==
    /\ dpc = "insert_data"
    /\ insert_columns' = InsertColumns(data[1])
    /\ pages_done' = 0
    /\ dpc' = "execute_batch"
    /\ UNCHANGED <<cleaned_csv, table_exists, relation, relation0, data, data_tuples,
                   conn, acquired, closed, tx, tx_log, pending, rowcount,
                   rows_inserted, exit, derr>>
    /\ UNCHANGED <<ingVars, clnVars>>

(* the tuples of page p (counted from 1) of execute_batch *)
Page(tuples, p) ==
    SubSeq(tuples, (p - 1) * page_size + 1,
           IF p * page_size < Len(tuples) THEN p * page_size ELSE Len(tuples))

NumPages(tuples) == (Len(tuples) + page_size - 1) \div page_size

(* conn.rollback() in the handler of insert_data *)
Rollback ==
    /\ pending' = <<>>
    /\ tx' = "idle"
    /\ tx_log' = IF tx = "idle" THEN tx_log ELSE Append(tx_log, "rollback")

(* the page sent on a connection in autocommit mode: every statement is    *)
(* its own transaction, and the handler's rollback undoes nothing          *)
execute_page_Autocommit ==
    /\ dpc = "execute_batch"
    /\ pages_done < NumPages(data_tuples)
    /\ \/ /\ relation' = relation \o Page(data_tuples, pages_done + 1)
          /\ pages_done' = pages_done + 1
          /\ rowcount' = 1
          /\ UNCHANGED <<dpc, exit, derr>>
       \/ /\ dpc' = "close"
          /\ exit' = "raise"
          /\ derr' = "CustomException"
          /\ UNCHANGED <<relation, pages_done, rowcount>>
    /\ UNCHANGED <<cleaned_csv, table_exists, relation0, data, data_tuples, conn,
                   acquired, closed, tx, tx_log, pending, insert_columns,
                   rows_inserted>>
    /\ UNCHANGED <<ingVars, clnVars>>

(* execute_batch sends one page: its statements run in the connection's    *)
(* transaction, or the page fails, and the handler rolls back and raises.  *)
(* cur.rowcount is the count of the last statement of the page.            *)
execute_page ==
    /\ dpc = "execute_batch"
    /\ pages_done < NumPages(data_tuples)
    /\ \/ /\ pending' = pending \o Page(data_tuples, pages_done + 1)
          /\ tx' = "open"
          /\ tx_log' = IF tx = "idle" THEN Append(tx_log, "begin") ELSE tx_log
          /\ pages_done' = pages_done + 1
          /\ rowcount' = 1
          /\ UNCHANGED <<dpc, exit, derr>>
       \/ /\ Rollback
          /\ dpc' = "close"
          /\ exit' = "raise"
          /\ derr' = "CustomException"
          /\ UNCHANGED <<pages_done, rowcount>>
    /\ UNCHANGED <<cleaned_csv, table_exists, relation, relation0, data, data_tuples,
                   conn, acquired, closed, insert_columns, rows_inserted>>
    /\ UNCHANGED <<ingVars, clnVars>>

(* rows_inserted = cur.rowcount; conn.commit(); return rows_inserted --    *)
(* or the commit fails, and the handler rolls back and raises              *)
commit_insert ==
    /\ dpc = "execute_batch"
    /\ pages_done = NumPages(data_tuples)
    /\ \/ /\ relation' = relation \o pending
          /\ pending' = <<>>
          /\ tx' = "idle"
          /\ tx_log' = IF tx = "idle" THEN tx_log ELSE Append(tx_log, "commit")
          /\ rows_inserted' = <<rowcount>>
          /\ dpc' = "close"
          /\ exit' = "return"
          /\ UNCHANGED derr
       \/ /\ Rollback
          /\ dpc' = "close"
          /\ exit' = "raise"
          /\ derr' = "CustomException"
          /\ UNCHANGED <<relation, rows_inserted>>
    /\ UNCHANGED <<cleaned_csv, table_exists, relation0, data, data_tuples, conn,
                   acquired, closed, insert_columns, pages_done, rowcount>>
    /\ UNCHANGED <<ingVars, clnVars>>

NextInsertion ==
    \/ prepare_data
    \/ get_connection
    \/ ensure_table_exists
    \/ insert_data_begin
    \/ execute_page
    \/ commit_insert
    \/ close_connection

SpecInsertion == InitInsertion /\ [][NextInsertion]_vars

-----------------------------------------------------------------------------
(* PROPERTIES                                                              *)

Last(s) == s[Len(s)]

(* ---- cleaning ---- *)

Critical == {"HomeTeam", "AwayTeam", "Date", "FTHG", "FTAG"}

NoMissingCritical(df) ==
    /\ Critical \subseteq ColSet(df)
    /\ \A r \in DOMAIN df.rows : \A c \in Critical : ~ IsNull(df.rows[r][c])

(* C1 -- Critical-column invariant: whenever the cleaner (steps 1, 2, 3)   *)
(* completes, every row of the cleaned table has a value in each of        *)
(* HomeTeam, AwayTeam, Date, FTHG and FTAG; this includes goals that only  *)
(* become missing through step 3's numeric coercion.                       *)
C1_CriticalColumnInvariant ==
    cpc = "done" => NoMissingCritical(standardized_no_nulls[1])

(* handle_missing_data has just returned or raised *)
StepTwoReturned == cpc = "declare_dtypes_early"
StepTwoRaised   == cpc = "raised" /\ enhanced # <<>> /\ enhanced_no_nulls = <<>>

(* C5 -- Stage B null-row pruning: for every input table that has the      *)
(* critical columns, handle_missing_data returns, whatever the missing     *)
(* percentage of a critical column is, and what it returns has no missing  *)
(* value in a critical column.                                             *)
C5_NullRowPruning ==
    (StepTwoReturned \/ StepTwoRaised) /\ Critical \subseteq ColSet(enhanced[1])
        => /\ enhanced_no_nulls # <<>>
           /\ NoMissingCritical(enhanced_no_nulls[1])

(* handle_missing_data has been called: its threshold and its log of the   *)
(* dropped columns are set                                                 *)
StepTwoCalled ==
    enhanced # <<>> /\ cpc \in {"declare_dtypes_early", "done", "raised"}

(* the missing percentage 100 * missing / total of column c exceeds t,     *)
(* in exact arithmetic                                                     *)
ExceedsExactly(df, c, t) == 100 * NullCount(df, c) > t * NRows(df)

EqualsExactly(df, c, t) ==
    NRows(df) > 0 /\ 100 * NullCount(df, c) = t * NRows(df)

(* C6 -- Sparse-column threshold: handle_missing_data drops a column if    *)
(* and only if its percentage of missing values is strictly greater than   *)
(* the threshold it was called with (10.0); a column at or below the       *)
(* threshold is kept.                                                      *)
C6_SparseColumnThreshold ==
    /\ StepTwoCalled =>
          /\ threshold = 10
          /\ cols_to_drop = { c \in ColSet(enhanced[1]) :
                                  ExceedsExactly(enhanced[1], c, threshold) }
    /\ StepTwoReturned =>
          ColSet(enhanced_no_nulls[1]) = ColSet(enhanced[1]) \ cols_to_drop

(* C6 witness: a column with exactly 10% missing is kept while another     *)
(* run's column above 10% is dropped; here: the equality case              *)
C6_Witness ==
    /\ StepTwoReturned
    /\ \E c \in ColSet(enhanced[1]) :
          /\ EqualsExactly(enhanced[1], c, threshold)
          /\ NullCount(enhanced[1], c) > 0
          /\ c \in ColSet(enhanced_no_nulls[1])

(* the flags whose case-normalised text is "false" *)
FalseFlags == {BoolV(FALSE), StrV("False"), StrV("false"), StrV("FALSE")}

EntriesOf(c) ==
    { j \in DOMAIN feature_catalog : feature_catalog[j].Feature_name = c }

(* C7 -- Betting filter (closed world): the columns remove_betting_features*)
(* returns are exactly the raw columns that the catalog lists with a flag  *)
(* whose case-normalised text is "false"; a column that the catalog does   *)
(* not list, or lists only with other flags, is not returned.              *)
C7_BettingFilter ==
    enhanced # <<>> =>
        /\ ColSet(enhanced[1]) =
              { c \in ColSet(ingested_csv) :
                   \E j \in EntriesOf(c) : feature_catalog[j].Betting_odd \in FalseFlags }
        /\ \A c \in ColSet(ingested_csv) :
              (\A j \in EntriesOf(c) : feature_catalog[j].Betting_odd \notin FalseFlags)
                  => c \notin ColSet(enhanced[1])
        /\ NRows(enhanced[1]) = NRows(ingested_csv)

(* C7 witness: FTHG listed as the boolean False or as text in another case *)
(* than "False" is kept, B365H listed as true is dropped, and so is the    *)
(* unlisted season_id                                                      *)
C7_Witness ==
    /\ enhanced # <<>>
    /\ "FTHG" \in ColSet(enhanced[1])
    /\ \E j \in EntriesOf("FTHG") :
          feature_catalog[j].Betting_odd \in {StrV("FALSE"), StrV("false"), BoolV(FALSE)}
    /\ \E j \in EntriesOf("B365H") :
          feature_catalog[j].Betting_odd \in {StrV("TRUE"), BoolV(TRUE)}
    /\ "B365H" \notin ColSet(enhanced[1])
    /\ "season_id" \notin ColSet(enhanced[1])

(* ---- ingestion ---- *)

WellFormedRegistry == csv_exists /\ Range(RegistryColumns) \subseteq ColSet(urls_file)

(* the url, and the season table, of the i-th registry entry *)
UrlOf(i) == urls_file.rows[i]["Seasons_url"].i
SourceOf(i) == remote[UrlOf(i)].df

AnySourceFails ==
    WellFormedRegistry /\ \E i \in 1..NRows(urls_file) : ~ remote[UrlOf(i)].ok

FirstFailing == CHOOSE i \in 1..NRows(urls_file) :
                    /\ ~ remote[UrlOf(i)].ok
                    /\ \A j \in 1..(i - 1) : remote[UrlOf(j)].ok

(* C3 -- Fetch abort: if the fetch of any one source of the registry       *)
(* fails, add_metadata raises at that source, no later source is fetched,  *)
(* combine_dataframes and save_datasets never run, and no unified dataset, *)
(* not even a union of the sources fetched before, is produced or written. *)
C3_FetchAbort ==
    /\ WellFormedRegistry =>
          \A k \in DOMAIN fetched : fetched[k] = UrlOf(k)
    /\ AnySourceFails =>
          /\ final_df = <<>>
          /\ saved = <<>>
          /\ "combine_dataframes" \notin Range(called)
          /\ "save_datasets" \notin Range(called)
          /\ ipc \in {"load_csv", "add_metadata", "raised"}
          /\ Len(fetched) <= FirstFailing
          /\ ipc = "raised" =>
                /\ ierr = "CustomException"
                /\ Len(fetched) = FirstFailing
                /\ Len(dataframes) = FirstFailing - 1

(* C3 witness: the second source fails after a first one was fetched whose *)
(* table alone could have been combined                                    *)
C3_Witness ==
    /\ AnySourceFails
    /\ ipc = "raised"
    /\ Len(fetched) = 2
    /\ Len(dataframes) = 1
    /\ Combined(dataframes) # <<>>

TotalRows(dfs) == Len(StackRows(dfs, <<>>))

(* C8 -- Legacy division column: combine_dataframes drops the Div column   *)
(* if the union has it, and when no fetched table has a Div column it      *)
(* still succeeds and returns the union unchanged.                         *)
C8_LegacyDivisionColumn ==
    /\ "combine_dataframes" \in Range(called)
    /\ dataframes # <<>>
    /\ TotalRows(dataframes) >= SampleSize
    => /\ final_df # <<>>
       /\ "Div" \notin ColSet(final_df[1])
       /\ (\A k \in DOMAIN dataframes : "Div" \notin ColSet(dataframes[k]))
             => final_df[1] = Concat(dataframes)

RECURSIVE RowsBefore(_)
(* the number of rows of the sources that precede registry entry i *)
RowsBefore(i) == IF i <= 1 THEN 0 ELSE RowsBefore(i - 1) + NRows(SourceOf(i - 1))

(* C9 -- Union order and column superset: the table combine_dataframes     *)
(* returns holds exactly the rows of all fetched tables, sources in        *)
(* registry order and each source's rows in their order; its columns are   *)
(* the union of the inputs' columns minus Div; a row of a table that lacks *)
(* a column has a missing value there; every row carries the season_id and *)
(* competition_name of its registry entry.                                 *)
C9_UnionOrder ==
    final_df # <<>> =>
        LET out == final_df[1]
            n   == NRows(urls_file)
        IN  /\ \A i \in 1..n : remote[UrlOf(i)].ok
            /\ NRows(out) = RowsBefore(n + 1)
            /\ ColSet(out) =
                  (UNION {ColSet(SourceOf(i)) : i \in 1..n}
                      \cup {"season_id", "competition_name"}) \ {"Div"}
            /\ Len(out.cols) = Cardinality(ColSet(out))
            /\ \A i \in 1..n : \A r \in 1..NRows(SourceOf(i)) :
                  LET row == out.rows[RowsBefore(i) + r] IN
                  /\ DOMAIN row = ColSet(out)
                  /\ \A c \in ColSet(out) :
                        row[c] = CASE c = "season_id" -> urls_file.rows[i]["Season_ID"]
                                   [] c = "competition_name" ->
                                          urls_file.rows[i]["Competition_name"]
                                   [] c \in ColSet(SourceOf(i)) -> SourceOf(i).rows[r][c]
                                   [] OTHER -> NA

(* C9 witness: two sources with rows and different columns were combined   *)
C9_Witness ==
    /\ final_df # <<>>
    /\ NRows(urls_file) = 2
    /\ NRows(SourceOf(1)) > 0
    /\ NRows(SourceOf(2)) > 0
    /\ ColSet(SourceOf(1)) # ColSet(SourceOf(2))
    /\ \E r \in DOMAIN final_df[1].rows : \E c \in ColSet(final_df[1]) :
          IsNull(final_df[1].rows[r][c])

(* ---- insertion ---- *)

(* C2 -- Insert atomicity: if the batched insert fails on any page or at   *)
(* commit, the transaction is rolled back before the error propagates and  *)
(* the relation holds none of the run's rows; in every reachable state the *)
(* relation holds all of the run's row tuples (after commit) or none.      *)
C2_InsertAtomicity ==
    /\ relation = relation0 \/ relation = relation0 \o data_tuples
    /\ exit = "raise" => relation = relation0 /\ pending = <<>> /\ tx = "idle"
    /\ dpc = "raised" => relation = relation0
    /\ exit = "return" => relation = relation0 \o data_tuples /\ pending = <<>>

(* C2 witness: the second page of a batch failed after the first went in   *)
C2_Witness ==
    /\ exit = "raise"
    /\ insert_columns # <<>>
    /\ pages_done >= 1
    /\ pages_done < NumPages(data_tuples)
    /\ Last(tx_log) = "rollback"
    /\ relation = relation0

(* C4 -- Connection lifecycle: the connection is acquired at most once per *)
(* run, and on every exit path after an acquisition (ensure_table_exists   *)
(* fails, insert_data fails, both succeed) it is closed exactly once       *)
(* before load_and_insert returns or raises; no run ends with it open.     *)
C4_ConnectionLifecycle ==
    /\ acquired <= 1
    /\ closed <= acquired
    /\ conn = "open" <=> (acquired = 1 /\ closed = 0)
    /\ conn = "none" <=> acquired = 0
    /\ dpc \in {"done", "raised"} => conn # "open" /\ closed = acquired

(* C4 witness: a run that raised out of insert_data has closed its         *)
(* connection once                                                         *)
C4_Witness ==
    /\ dpc = "raised"
    /\ insert_columns # <<>>
    /\ acquired = 1
    /\ closed = 1
    /\ conn = "closed"

(* the canonical name a raw label stands for *)
Canonical(c) == IF c = "HS" THEN "HomeShots" ELSE IF c = "AS" THEN "AwayShots" ELSE c

Slot(c) == CHOOSE j \in DOMAIN COLUMN_ORDER : COLUMN_ORDER[j] = c

(* C10 -- Schema negotiation: prepare_data renames (HS to HomeShots, AS to *)
(* AwayShots) before projecting, so its output columns are exactly the     *)
(* COLUMN_ORDER entries present in the renamed table, in canonical order;  *)
(* each row tuple is aligned with those columns; the insert statement's    *)
(* column list is that same ordered intersection (as the table names its   *)
(* columns), never naming a column the prepared table lacks.               *)
C10_SchemaNegotiation ==
    /\ data # <<>> =>
          LET out == data[1]
              present == {Canonical(c) : c \in ColSet(cleaned_csv)}
                            \cap Range(COLUMN_ORDER)
          IN  /\ Range(out.cols) = present
              /\ Len(out.cols) = Cardinality(present)
              /\ \A i, j \in DOMAIN out.cols :
                    i < j => Slot(out.cols[i]) < Slot(out.cols[j])
              /\ Len(data_tuples) = NRows(cleaned_csv)
              /\ \A r \in DOMAIN data_tuples :
                    /\ Len(data_tuples[r]) = Len(out.cols)
                    /\ \A j \in DOMAIN out.cols :
                          \E k \in DOMAIN cleaned_csv.cols :
                             /\ Canonical(cleaned_csv.cols[k]) = out.cols[j]
                             /\ data_tuples[r][j] = cleaned_csv.rows[r][k]
    /\ insert_columns # <<>> =>
          /\ Len(insert_columns) = Len(data[1].cols)
          /\ \A j \in DOMAIN insert_columns :
                insert_columns[j] = TABLE_COLUMNS[Slot(data[1].cols[j])]

(* C10 witness: a raw HS column, not at the HomeShots slot in the file,    *)
(* was prepared with rows and the statement was built                      *)
C10_Witness ==
    /\ insert_columns # <<>>
    /\ "HS" \in ColSet(cleaned_csv)
    /\ data_tuples # <<>>
    /\ \E j \in DOMAIN data[1].cols :
          /\ data[1].cols[j] = "HomeShots"
          /\ cleaned_csv.cols[j] # "HS"
          /\ insert_columns[j] = "homeshots"

(* ---- source catalog ---- *)

CatalogMissing == ~ csv_exists

CatalogMalformed ==
    csv_exists /\ ~ (Range(RegistryColumns) \subseteq ColSet(urls_file))

(* the run has got past the point where it reads the catalog's entries *)
CatalogUsed ==
    \/ ipc \in {"combine", "save", "done", "raised"}
    \/ ipc = "add_metadata" /\ index > 0

(* C11 -- Source catalog failure: when the source catalog is missing, or   *)
(* is malformed because Season_ID, Seasons_url or Competition_name is      *)
(* absent, the registry load fails with the pipeline's wrapped error       *)
(* (CustomException carrying the cause), and no source is fetched.         *)
C11_SourceCatalogFailure ==
    /\ CatalogMissing /\ "load_csv" \in Range(called)
          => ipc = "raised" /\ ierr = "CustomException" /\ fetched = <<>>
    /\ CatalogMalformed /\ NRows(urls_file) > 0 /\ CatalogUsed
          => ipc = "raised" /\ ierr = "CustomException" /\ fetched = <<>>

(* ---- inserted rows ---- *)

(* C12 -- Inserted-row count: on success insert_data, and so               *)
(* load_and_insert, returns the number of rows inserted in the run, which  *)
(* is the number of row tuples passed in, also for more than one tuple and *)
(* for more than one page of 1000.                                         *)
C12_InsertedRowCount ==
    exit = "return" /\ Len(data_tuples) >= 1
        => rows_inserted = <<Len(data_tuples)>>

(* ---- transactions ---- *)

(* every transaction of the log is begun and then ended once *)
Bracketed(log) ==
    \A k \in DOMAIN log :
        IF k % 2 = 1 THEN log[k] = "begin" ELSE log[k] \in {"commit", "rollback"}

EnsureFailed == Len(tx_log) >= 2 /\ tx_log[2] = "rollback"

InsertStarted == insert_columns # <<>>

(* C13 -- Transaction discipline: ensure_table_exists and insert_data each *)
(* run in a transaction of their own, ended by exactly one commit (on      *)
(* success) or one rollback (on failure) before the operation returns or   *)
(* raises; the schema transaction is finished before the insert            *)
(* transaction begins; insert_data is never started if                     *)
(* ensure_table_exists failed; no transaction is open when the connection  *)
(* is closed.                                                              *)
C13_TransactionDiscipline ==
    /\ Bracketed(tx_log)
    /\ Len(tx_log) <= 4
    /\ tx = "open" <=> Len(tx_log) % 2 = 1
    /\ tx = "idle" => pending = <<>>
    /\ dpc \in {"prepare_data", "get_connection", "ensure_table_exists"}
          => tx_log = <<>>
    /\ dpc = "insert_data" => tx_log = <<"begin", "commit">>
    /\ InsertStarted => SubSeq(tx_log, 1, 2) = <<"begin", "commit">>
    /\ EnsureFailed => ~ InsertStarted /\ Len(tx_log) = 2 /\ pages_done = 0
    /\ tx = "open" => dpc = "execute_batch" /\ conn = "open"
    /\ dpc \in {"close", "done", "raised"} => tx = "idle"
    /\ exit = "return" =>
          tx_log = <<"begin", "commit">> \o
                   (IF data_tuples = <<>> THEN <<>> ELSE <<"begin", "commit">>)
    /\ exit = "raise" /\ InsertStarted =>
          tx_log = <<"begin", "commit">> \o
                   (IF pages_done = 0 THEN <<>> ELSE <<"begin", "rollback">>)

(* C13 witness: the schema transaction committed, the insert transaction   *)
(* was rolled back after a page had gone in, and the connection is closed  *)
C13_Witness ==
    /\ tx_log = <<"begin", "commit", "begin", "rollback">>
    /\ pages_done >= 1
    /\ conn = "closed"
    /\ dpc = "raised"

(* ---- string columns ---- *)

NonCriticalStrings == {"FTR", "HTR", "Referee"}

(* the table handle_missing_data returned, before step 3 changed it *)
StepThreeInput == DropNA(DropColumns(enhanced[1], cols_to_drop), Critical)

(* C14 -- Step 3 preserves missingness outside the critical columns: in    *)
(* FTR, HTR and Referee a cell that is missing before declare_dtypes_early *)
(* is still missing after it, and a cell that is not missing before is not *)
(* missing after.                                                          *)
C14_MissingnessPreserved ==
    cpc = "done" =>
        LET before == StepThreeInput
            after  == standardized_no_nulls[1]
        IN  /\ NRows(after) = NRows(before)
            /\ \A r \in DOMAIN before.rows :
                  \A c \in NonCriticalStrings \cap ColSet(before) :
                     IsNull(after.rows[r][c]) <=> IsNull(before.rows[r][c])

=============================================================================
